---- MODULE Spec2Model ----
(***************************************************************************)
(* ImpelEngine (src/src/impel_engine.cpp): the process-wide registry of    *)
(* processor factories (function_map_) and, per engine, the map from       *)
(* processor type to the one processor instance the engine owns            *)
(* (processors_), with the operations RegisterProcessorFactory, Processor, *)
(* AdvanceFrame and Reset.                                                 *)
(*                                                                         *)
(* Both maps are modelled as sets of <<key, value>> entries, so that "at   *)
(* most one entry per key" is a property of what insert and find do, not   *)
(* of the representation.  Processor instances live in `heap`; a handle    *)
(* (a pointer to ImpelProcessorBase) is an index into it; NULL is nullptr.  *)
(***************************************************************************)
EXTENDS Integers, Sequences, FiniteSets, TLC

\* Bounds of the model: instances created, and frames advanced, in a run.
MaxHandles == 2
MaxFrames == 3

\* nullptr
NULL == 0

\* ImpelEngine objects, ImpellerType values, ImpelProcessorFunctions values
\* (create/destroy pairs) and ImpelTime values.
Engines == {"e1", "e2"}
Types == {1, 2}
FactoryPairs == {1, 2}
DeltaTimes == {0, 16}

VARIABLES
  function_map_,  \* static registry: set of <<type, fns>>
  processors_,    \* per engine: set of <<type, handle>>
  heap,           \* every processor instance ever created, by handle
  frames,         \* history: AdvanceFrame calls made so far, on any engine
  lastCall,       \* history: the most recent call, what it returned and the
                  \*   create, destroy and advance invocations it made
  given,          \* history: per engine and type, the handle the first
                  \*   successful Processor call since the last Reset returned
  old,            \* history: per engine and type, the handles returned before
                  \*   the engine's last Reset
  contested,      \* history: handles that were live when their type was
                  \*   registered again with a different factory pair
  refused,        \* history, kept when recording: per engine, the types
                  \*   for which Processor has returned null
  recording       \* whether the run keeps the history of refusals

vars == <<function_map_, processors_, heap, frames, lastCall, given, old,
          contested, refused, recording>>

----------------------------------------------------------------------------
\* std::map, as a set of entries with the operations the code uses.

Keys(map) == {p[1] : p \in map}
Values(map) == {p[2] : p \in map}

\* map.find(key): the entries found ({} is end()).
Find(map, key) == {p \in map : p[1] = key}

\* it->second
Second(it) == (CHOOSE p \in it : TRUE)[2]

\* A buggy insert: replaces the entry of a key that is present.
InsertOverwrite(map, key, value) == (map \ Find(map, key)) \cup {<<key, value>>}

\* map.insert(pair): no effect when the key is present.
Insert(map, key, value) ==
  IF Find(map, key) # {} THEN map ELSE map \cup {<<key, value>>}

\* A buggy clear: removes nothing.
ClearNothing(map) == map

\* map.clear()
Clear(map) == {}

Before(p, q) == p[1] < q[1] \/ (p[1] = q[1] /\ p[2] < q[2])

\* A buggy iteration: from the largest key down.
RECURSIVE InOrderReversed(_)
InOrderReversed(map) ==
  IF map = {} THEN <<>>
  ELSE LET last == CHOOSE p \in map : \A q \in map \ {p} : Before(q, p)
       IN  <<last>> \o InOrderReversed(map \ {last})

\* The entries in iteration order, begin() to end().
RECURSIVE InOrder(_)
InOrder(map) ==
  IF map = {} THEN <<>>
  ELSE LET first == CHOOSE p \in map : \A q \in map \ {p} : Before(p, q)
       IN  <<first>> \o InOrder(map \ {first})

----------------------------------------------------------------------------
\* Processor instances.  A call's state s is [heap, calls]: the instances and
\* the invocations the call has made so far.

\* Counter increment per advance of an instance built by factory pair fns.
Step(fns) == fns

Invocation(f, fns, h, dt) == [f |-> f, fns |-> fns, h |-> h, dt |-> dt]

\* fns.create(), called by engine e for type: a new instance, not yet
\* advanced or destroyed; its handle is Len(s.heap) + 1.
Create(s, fns, type, e) ==
  [heap |-> Append(s.heap,
              [createdBy |-> fns, type |-> type, owner |-> e,
               destroyedBy |-> <<>>, advances |-> 0, counter |-> 0,
               due |-> 0]),
   calls |-> Append(s.calls, Invocation("create", fns, Len(s.heap) + 1, 0))]

\* A buggy destroy call: never made.
DestroyNothing(s, h, fns) == s

\* fns.destroy(h)
Destroy(s, h, fns) ==
  [heap |-> IF h \in DOMAIN s.heap
            THEN [s.heap EXCEPT ![h].destroyedBy = Append(@, fns)]
            ELSE s.heap,
   calls |-> Append(s.calls, Invocation("destroy", fns, h, 0))]

\* h->AdvanceFrame(dt).  The invocation records, as saw, the state every
\* instance is in when it is made: what h's advance can read of the others.
ProcessorAdvanceFrame(s, h, dt) ==
  [heap |-> IF h \in DOMAIN s.heap
            THEN [s.heap EXCEPT ![h].advances = @ + 1,
                                ![h].counter = @ + Step(s.heap[h].createdBy)]
            ELSE s.heap,
   calls |-> Append(s.calls,
               Invocation("advance", 0, h, dt) @@
               [saw |-> [k \in DOMAIN s.heap |-> s.heap[k].advances]])]

\* History: every instance engine e owns and has not destroyed is due one
\* more advance.
Due(hp, e) ==
  [h \in DOMAIN hp |->
     IF hp[h].owner = e /\ hp[h].destroyedBy = <<>>
     THEN [hp[h] EXCEPT !.due = @ + 1] ELSE hp[h]]

\* The state a call starts in.
Entry == [heap |-> heap, calls |-> <<>>]

Live == UNION {Values(processors_[e]) : e \in Engines} \ {NULL}

----------------------------------------------------------------------------
Call(op, e, type, fns, dt, ret, calls) ==
  [op |-> op, engine |-> e, type |-> type, fns |-> fns, dt |-> dt,
   ret |-> ret, calls |-> calls]

Start ==
  /\ function_map_ = {}
  /\ processors_ = [e \in Engines |-> {}]
  /\ heap = <<>>
  /\ frames = 0
  /\ lastCall = Call("none", "none", 0, 0, 0, NULL, <<>>)
  /\ given = [e \in Engines |-> [t \in Types |-> NULL]]
  /\ old = [e \in Engines |-> [t \in Types |-> {}]]
  /\ contested = {}
  /\ refused = [e \in Engines |-> {}]

Init == Start /\ recording = FALSE

\* The same start, in a run that keeps the history of refusals.
InitRecover == Start /\ recording = TRUE

\* ImpelEngine::RegisterProcessorFactory(type, fns)
RegisterProcessorFactory(type, fns) ==
  /\ function_map_' = Insert(function_map_, type, fns)
  /\ contested' = contested \cup
       {h \in Live : heap[h].type = type /\ heap[h].createdBy # fns}
  /\ lastCall' = Call("Register", "static", type, fns, 0, NULL, <<>>)
  /\ UNCHANGED <<processors_, heap, frames, given, old, refused, recording>>

\* History of a Processor(type) call on engine e that returned ret.
Returned(e, type, ret, calls) ==
  /\ lastCall' = Call("Processor", e, type, 0, 0, ret, calls)
  /\ given' = [given EXCEPT ![e][type] = IF @ = NULL THEN ret ELSE @]
  /\ refused' = [refused EXCEPT
                   ![e] = IF recording /\ ret = NULL THEN @ \cup {type} ELSE @]
  /\ UNCHANGED <<function_map_, frames, old, contested, recording>>

\* A buggy lookup: never finds the engine's processor.
ExistingNone(e, type) == {}

\* A buggy lookup: searches the maps of all engines, as if processors_ were
\* shared.
ExistingAnywhere(e, type) ==
  UNION {Find(processors_[d], type) : d \in Engines}

\* processors_.find(type)
Existing(e, type) == Find(processors_[e], type)

\* A buggy registry lookup: an unregistered type gets the first factory pair.
FunctionPairDefault(type) ==
  IF Find(function_map_, type) # {} THEN Find(function_map_, type)
  ELSE {<<type, 1>>}

\* A buggy registry lookup: never finds a factory pair.
FunctionPairNone(type) == {}

\* function_map_.find(type)
FunctionPair(type) == Find(function_map_, type)

\* A buggy Processor: no lookup of an existing processor, and the new one
\* replaces the stored one.
ProcessorReplace(e, type) ==
  /\ FunctionPair(type) # {}
  /\ Len(heap) < MaxHandles
  /\ LET s == Create(Entry, Second(FunctionPair(type)), type, e)
     IN  /\ heap' = s.heap
         /\ processors_' = [processors_ EXCEPT
                              ![e] = InsertOverwrite(@, type, Len(s.heap))]
         /\ Returned(e, type, Len(s.heap), s.calls)

\* A buggy Processor: remembers the null it returns for an unregistered type.
ProcessorCachesNull(e, type) ==
  LET it == Existing(e, type)
      function_pair == FunctionPair(type)
  IN  \/ /\ it # {}
         /\ Returned(e, type, Second(it), <<>>)
         /\ UNCHANGED <<processors_, heap>>
      \/ /\ it = {}
         /\ function_pair = {}
         /\ processors_' = [processors_ EXCEPT ![e] = Insert(@, type, NULL)]
         /\ Returned(e, type, NULL, <<>>)
         /\ UNCHANGED heap
      \/ /\ it = {}
         /\ function_pair # {}
         /\ Len(heap) < MaxHandles
         /\ LET s == Create(Entry, Second(function_pair), type, e)
            IN  /\ heap' = s.heap
                /\ processors_' = [processors_ EXCEPT
                                     ![e] = Insert(@, type, Len(s.heap))]
                /\ Returned(e, type, Len(s.heap), s.calls)

\* ImpelEngine::Processor(type)
Processor(e, type) ==
  LET it == Existing(e, type)
      function_pair == FunctionPair(type)
  IN  \/ /\ it # {}
         /\ Returned(e, type, Second(it), <<>>)
         /\ UNCHANGED <<processors_, heap>>
      \/ /\ it = {}
         /\ function_pair = {}
         /\ Returned(e, type, NULL, <<>>)
         /\ UNCHANGED <<processors_, heap>>
      \/ /\ it = {}
         /\ function_pair # {}
         /\ Len(heap) < MaxHandles
         /\ LET s == Create(Entry, Second(function_pair), type, e)
                processor == Len(s.heap)
            IN  /\ heap' = s.heap
                /\ processors_' = [processors_ EXCEPT
                                     ![e] = Insert(@, type, processor)]
                /\ Returned(e, type, processor, s.calls)

\* A buggy loop: leaves after the first entry.
AdvanceLoopFirstOnly(s, its, dt) ==
  IF its = <<>> THEN s ELSE ProcessorAdvanceFrame(s, Head(its)[2], dt)

\* The loop of AdvanceFrame over the entries its.
RECURSIVE AdvanceLoop(_, _, _)
AdvanceLoop(s, its, dt) ==
  IF its = <<>> THEN s
  ELSE AdvanceLoop(ProcessorAdvanceFrame(s, Head(its)[2], dt), Tail(its), dt)

\* A buggy AdvanceFrame: drops the processors it has advanced.
AdvanceFrameClears(e, delta_time) ==
  /\ frames < MaxFrames
  /\ LET s == AdvanceLoop(Entry, InOrder(processors_[e]), delta_time)
     IN  /\ heap' = Due(s.heap, e)
         /\ lastCall' = Call("AdvanceFrame", e, 0, 0, delta_time, NULL, s.calls)
  /\ processors_' = [processors_ EXCEPT ![e] = Clear(@)]
  /\ frames' = frames + 1
  /\ UNCHANGED <<function_map_, given, old, contested, refused, recording>>

\* ImpelEngine::AdvanceFrame(delta_time)
AdvanceFrame(e, delta_time) ==
  /\ frames < MaxFrames
  /\ LET s == AdvanceLoop(Entry, InOrder(processors_[e]), delta_time)
     IN  /\ heap' = Due(s.heap, e)
         /\ lastCall' = Call("AdvanceFrame", e, 0, 0, delta_time, NULL, s.calls)
  /\ frames' = frames + 1
  /\ UNCHANGED <<function_map_, processors_, given, old, contested, refused,
                 recording>>

\* The loop of Reset over the entries its of map: found[t] is
\* function_map_.find(t)->second.  Returns the call's state and the map.
RECURSIVE ResetLoop(_, _, _, _)
ResetLoop(s, map, its, found) ==
  IF its = <<>> THEN [s |-> s, map |-> map]
  ELSE LET it == Head(its)
       IN  ResetLoop(Destroy(s, it[2], found[it[1]]),
                     (map \ {it}) \cup {<<it[1], NULL>>}, Tail(its), found)

\* ImpelEngine::Reset().  function_map_.find(t)->second of a type that is
\* not registered dereferences end(): any factory pair may come out.
Reset(e) ==
  \E found \in [Keys(processors_[e]) -> FactoryPairs] :
    /\ \A t \in DOMAIN found :
         FunctionPair(t) # {} => found[t] = Second(FunctionPair(t))
    /\ LET r == ResetLoop(Entry, processors_[e], InOrder(processors_[e]), found)
       IN  /\ heap' = r.s.heap
           /\ processors_' = [processors_ EXCEPT ![e] = Clear(r.map)]
           /\ lastCall' = Call("Reset", e, 0, 0, 0, NULL, r.s.calls)
    /\ given' = [given EXCEPT ![e] = [t \in Types |-> NULL]]
    /\ old' = [old EXCEPT ![e] =
                 [t \in Types |-> old[e][t] \cup ({given[e][t]} \ {NULL})]]
    /\ UNCHANGED <<function_map_, frames, contested, refused, recording>>

\* The host's calls, on the engines of E.
Host(E) ==
  \/ \E type \in Types, fns \in FactoryPairs :
       RegisterProcessorFactory(type, fns)
  \/ \E e \in E, type \in Types : Processor(e, type)
  \/ \E e \in E, dt \in DeltaTimes : AdvanceFrame(e, dt)
  \/ \E e \in E : Reset(e)

\* A host with one engine.
Next == Host({"e1"})

Spec == Init /\ [][Next]_vars

\* A host with two engines sharing the registry, which registers the types
\* before it first calls an engine.
NextTwo ==
  \/ \E type \in Types, fns \in FactoryPairs :
       /\ lastCall.op \in {"none", "Register"}
       /\ RegisterProcessorFactory(type, fns)
  \/ \E e \in Engines, type \in Types : Processor(e, type)
  \/ \E e \in Engines, dt \in DeltaTimes : AdvanceFrame(e, dt)
  \/ \E e \in Engines : Reset(e)

SpecTwo == Init /\ [][NextTwo]_vars

\* A host with one engine that registers a type at any time, before or after
\* it asked the engine for it, and registers no type twice.
NextRecover ==
  \/ \E type \in Types, fns \in FactoryPairs :
       /\ Find(function_map_, type) = {}
       /\ RegisterProcessorFactory(type, fns)
  \/ \E type \in Types : Processor("e1", type)
  \/ \E dt \in DeltaTimes : AdvanceFrame("e1", dt)
  \/ Reset("e1")

\* The late-registering host, its refusals recorded.
SpecRecover == InitRecover /\ [][NextRecover]_vars

----------------------------------------------------------------------------
\* What the claims speak of.

Registered(t) == \E p \in function_map_ : p[1] = t
RegisteredPair(t) == (CHOOSE p \in function_map_ : p[1] = t)[2]
Entries(e) == processors_[e]
HasEntry(e, t) == \E p \in processors_[e] : p[1] = t

\* The step is a call of op on engine e (every call rewrites lastCall).
Called(op, e) == lastCall'.op = op /\ lastCall'.engine = e
Did(op) == lastCall.op = op

\* The invocations of f on handle h among calls.
Invocations(calls, f, h) ==
  {i \in 1..Len(calls) : calls[i].f = f /\ calls[i].h = h}

----------------------------------------------------------------------------
\* C1: on every engine, the first Processor(T) for a registered type T
\* returns a non-null handle, and every later Processor(T) before a Reset of
\* the engine, whatever Processor calls for other types and AdvanceFrame
\* calls came in between, returns that same handle and invokes no create.
ProcessorReturnsSameHandle ==
  [][\A e \in Engines, t \in Types :
       (Called("Processor", e) /\ lastCall'.type = t) =>
         /\ (given[e][t] = NULL /\ Registered(t)) => lastCall'.ret # NULL
         /\ given[e][t] # NULL =>
              /\ lastCall'.ret = given[e][t]
              /\ lastCall'.calls = <<>>
              /\ heap' = heap]_vars

\* A Processor call returned the handle of an earlier call, after a frame was
\* advanced and a processor of another type was created in between.
ProcessorReturnsSameHandleWitness ==
  /\ Did("Processor")
  /\ lastCall.ret # NULL
  /\ lastCall.calls = <<>>
  /\ heap[lastCall.ret].advances > 0
  /\ \E p \in Entries(lastCall.engine) :
       p[1] # lastCall.type /\ p[2] > lastCall.ret

\* C2: Processor(U) for a type U that is not registered returns null, invokes
\* no create and leaves the instances map and the registry unchanged, every
\* time it is called.
UnregisteredReturnsNull ==
  [][\A e \in Engines :
       (Called("Processor", e) /\ ~Registered(lastCall'.type)) =>
         /\ lastCall'.ret = NULL
         /\ lastCall'.calls = <<>>
         /\ heap' = heap
         /\ processors_' = processors_
         /\ function_map_' = function_map_]_vars

\* Processor returned null for an unregistered type on an engine that owns a
\* processor of another type.
UnregisteredReturnsNullWitness ==
  /\ Did("Processor")
  /\ lastCall.ret = NULL
  /\ ~Registered(lastCall.type)
  /\ Entries(lastCall.engine) # {}

\* C3: after Reset(), Processor(T) for a type T that had a handle before the
\* Reset invokes create again and returns the new instance; the handles the
\* engine returned for T before a Reset have been destroyed and none of them
\* is returned again.
NewHandleAfterReset ==
  [][\A e \in Engines, t \in Types :
       (Called("Processor", e) /\ lastCall'.type = t /\ old[e][t] # {}) =>
         /\ lastCall'.ret \notin old[e][t]
         /\ \A h \in old[e][t] : heap[h].destroyedBy # <<>>
         /\ given[e][t] = NULL =>
              /\ lastCall'.ret # NULL
              /\ lastCall'.ret \notin DOMAIN heap
              /\ lastCall'.ret \in DOMAIN heap'
              /\ Len(lastCall'.calls) = 1
              /\ lastCall'.calls[1].f = "create"
              /\ lastCall'.calls[1].h = lastCall'.ret]_vars

\* Processor created a second instance for a type whose first instance a
\* Reset destroyed.
NewHandleAfterResetWitness ==
  /\ Did("Processor")
  /\ lastCall.ret # NULL
  /\ lastCall.calls # <<>>
  /\ old[lastCall.engine][lastCall.type] # {}
  /\ \A h \in old[lastCall.engine][lastCall.type] :
       heap[h].destroyedBy # <<>> /\ h # lastCall.ret

\* C4: Reset() invokes the destroy operation registered for the entry's type
\* exactly once on every handle in the instances map, invokes nothing else,
\* and leaves the map empty.
ResetDestroysEachOnce ==
  [][\A e \in Engines :
       Called("Reset", e) =>
         /\ \A p \in Entries(e) :
              /\ Cardinality(Invocations(lastCall'.calls, "destroy", p[2])) = 1
              /\ Registered(p[1])
              /\ \A i \in Invocations(lastCall'.calls, "destroy", p[2]) :
                   lastCall'.calls[i].fns = RegisteredPair(p[1])
              /\ heap'[p[2]].destroyedBy =
                   Append(heap[p[2]].destroyedBy, RegisteredPair(p[1]))
         /\ Len(lastCall'.calls) = Cardinality(Entries(e))
         /\ processors_'[e] = {}]_vars

\* A Reset destroyed two processors.
ResetDestroysEachOnceWitness ==
  /\ Did("Reset")
  /\ Len(lastCall.calls) = 2
  /\ lastCall.calls[1].h # lastCall.calls[2].h

\* C5: Reset() on an engine with no instance invokes no destroy and changes
\* no state; a following Processor(T) for a registered T returns a non-null
\* handle, which a following AdvanceFrame advances.
ResetOfEmptyEngine ==
  [][\A e \in Engines :
       /\ (Called("Reset", e) /\ Entries(e) = {}) =>
            /\ lastCall'.calls = <<>>
            /\ heap' = heap
            /\ processors_' = processors_
            /\ function_map_' = function_map_
       /\ (/\ Did("Reset") /\ lastCall.engine = e /\ lastCall.calls = <<>>
           /\ Called("Processor", e) /\ Registered(lastCall'.type)) =>
            /\ lastCall'.ret # NULL
            /\ <<lastCall'.type, lastCall'.ret>> \in processors_'[e]
       /\ (/\ Did("Processor") /\ lastCall.engine = e /\ lastCall.ret # NULL
           /\ Called("AdvanceFrame", e)) =>
            heap'[lastCall.ret].advances = heap[lastCall.ret].advances + 1]_vars

\* A Reset ran on an engine that owned nothing, with a type registered.
ResetOfEmptyEngineWitness ==
  /\ Did("Reset")
  /\ lastCall.calls = <<>>
  /\ Entries(lastCall.engine) = {}
  /\ function_map_ # {}

\* C6: one AdvanceFrame(dt) invokes advance exactly once, with dt, on every
\* handle in the instances map and on no other handle, in whatever order the
\* processors were obtained.
AdvanceFrameAdvancesEachOnce ==
  [][\A e \in Engines :
       Called("AdvanceFrame", e) =>
         /\ \A p \in Entries(e) :
              /\ Cardinality(Invocations(lastCall'.calls, "advance", p[2])) = 1
              /\ heap'[p[2]].advances = heap[p[2]].advances + 1
         /\ Len(lastCall'.calls) = Cardinality(Entries(e))
         /\ \A i \in 1..Len(lastCall'.calls) :
              /\ lastCall'.calls[i].f = "advance"
              /\ lastCall'.calls[i].dt = lastCall'.dt
         /\ \A h \in DOMAIN heap \ Values(Entries(e)) :
              heap'[h].advances = heap[h].advances]_vars

\* AdvanceFrame advanced two processors, the one of the larger type obtained
\* first.
AdvanceFrameAdvancesEachOnceWitness ==
  /\ Did("AdvanceFrame")
  /\ Len(lastCall.calls) = 2
  /\ \E p, q \in Entries(lastCall.engine) : p[1] < q[1] /\ q[2] < p[2]

\* C7: a live handle has received as many advances as AdvanceFrame calls were
\* made on its engine since it was created, so that an instance ticking by 1
\* counts k and one ticking by 2 counts 2k after k frames; and no advance
\* goes to a type for which Processor returns null.
AdvancesEqualFrames ==
  /\ \A e \in Engines : \A p \in Entries(e) :
       /\ p[2] \in DOMAIN heap
       /\ heap[p[2]].advances = heap[p[2]].due
       /\ heap[p[2]].counter = Step(heap[p[2]].createdBy) * heap[p[2]].due
  /\ (Did("Processor") /\ lastCall.ret = NULL) =>
       ~HasEntry(lastCall.engine, lastCall.type)
  /\ Did("AdvanceFrame") =>
       \A i \in 1..Len(lastCall.calls) :
         /\ HasEntry(lastCall.engine, heap[lastCall.calls[i].h].type)
         /\ Registered(heap[lastCall.calls[i].h].type)

\* A (ticking by 1) and B (ticking by 2) were obtained and three frames
\* advanced: A counts 3 and B counts 6.
AdvancesEqualFramesWitness ==
  \E e \in Engines : \E p, q \in Entries(e) :
    /\ heap[p[2]].createdBy = 1 /\ heap[p[2]].due = 3 /\ heap[p[2]].counter = 3
    /\ heap[q[2]].createdBy = 2 /\ heap[q[2]].due = 3 /\ heap[q[2]].counter = 6

\* C8 as stated: a second RegisterProcessorFactory for a registered type
\* overwrites the entry, so that the registry then maps the type to the
\* second call's factory pair.
SecondRegistrationOverwrites ==
  [][(lastCall'.op = "Register" /\ Registered(lastCall'.type)) =>
       \A p \in function_map_' :
         p[1] = lastCall'.type => p[2] = lastCall'.fns]_vars

\* C8 as amended: a second RegisterProcessorFactory for a registered type is
\* silently ignored: the registry is unchanged and still maps the type to the
\* first call's factory pair.
SecondRegistrationIgnored ==
  [][(lastCall'.op = "Register" /\ Registered(lastCall'.type)) =>
       function_map_' = function_map_]_vars

\* A registered type was registered again with another factory pair.
SecondRegistrationIgnoredWitness ==
  /\ Did("Register")
  /\ Registered(lastCall.type)
  /\ RegisteredPair(lastCall.type) # lastCall.fns

\* C9: every handle an engine destroys in Reset is destroyed by the destroy
\* of the factory pair whose create constructed it, also when its type was
\* registered again between the Processor call and the Reset.
DestroyedByItsCreator ==
  /\ \A h \in DOMAIN heap :
       \A i \in 1..Len(heap[h].destroyedBy) :
         heap[h].destroyedBy[i] = heap[h].createdBy
  /\ Did("Reset") =>
       \A i \in 1..Len(lastCall.calls) :
         lastCall.calls[i].fns = heap[lastCall.calls[i].h].createdBy

\* A Reset destroyed a handle whose type had been registered again, with
\* another factory pair, while the handle was live.
DestroyedByItsCreatorWitness ==
  /\ Did("Reset")
  /\ \E i \in 1..Len(lastCall.calls) : lastCall.calls[i].h \in contested

\* C10: an instances map holds at most one handle per type, and a Processor
\* call changes it only by inserting one entry for a type that had none.
AtMostOnePerType ==
  /\ [](\A e \in Engines : \A p, q \in Entries(e) : p[1] = q[1] => p = q)
  /\ [][\A e \in Engines :
          Called("Processor", e) =>
            /\ \A d \in Engines \ {e} : processors_'[d] = processors_[d]
            /\ \/ processors_'[e] = processors_[e]
               \/ /\ ~HasEntry(e, lastCall'.type)
                  /\ lastCall'.ret # NULL
                  /\ processors_'[e] =
                       processors_[e] \cup {<<lastCall'.type, lastCall'.ret>>}]_vars

\* Processor inserted an entry beside the entry of another type.
AtMostOnePerTypeWitness ==
  /\ Did("Processor")
  /\ lastCall.calls # <<>>
  /\ Cardinality(Entries(lastCall.engine)) = 2
  /\ <<lastCall.type, lastCall.ret>> \in Entries(lastCall.engine)

\* C11: an engine's instances map has an entry for type T exactly when a
\* Processor(T) call on the engine has returned non-null and the engine has
\* not been Reset since; the entry holds the handle that call returned.
EntryIffReturnedSinceReset ==
  \A e \in Engines, t \in Types :
    /\ HasEntry(e, t) <=> given[e][t] # NULL
    /\ HasEntry(e, t) => {p \in Entries(e) : p[1] = t} = {<<t, given[e][t]>>}

\* One type has an entry from a Processor call made after a Reset, the other
\* had a handle before that Reset and has no entry now.
EntryIffReturnedSinceResetWitness ==
  \E e \in Engines, t, u \in Types :
    /\ HasEntry(e, t) /\ given[e][t] # NULL
    /\ ~HasEntry(e, u) /\ old[e][u] # {} /\ given[e][u] = NULL

\* C12: a null result of Processor(U) is not remembered: once U, refused
\* while unregistered, is registered with a factory pair ops, the next
\* Processor(U) on the engine constructs an instance with ops.create and
\* returns its non-null handle.
NullIsRecoverable ==
  [][/\ (lastCall'.op = "Register" /\ ~Registered(lastCall'.type)) =>
          {p \in function_map_' : p[1] = lastCall'.type}
            = {<<lastCall'.type, lastCall'.fns>>}
     /\ \A e \in Engines, u \in Types :
          (/\ Called("Processor", e) /\ lastCall'.type = u
           /\ u \in refused[e] /\ Registered(u) /\ given[e][u] = NULL) =>
            /\ lastCall'.ret # NULL
            /\ lastCall'.calls =
                 <<[f |-> "create", fns |-> RegisteredPair(u),
                    h |-> lastCall'.ret, dt |-> 0]>>
            /\ <<u, lastCall'.ret>> \in processors_'[e]]_vars

\* Processor constructed an instance for a type it had refused earlier, with
\* the factory pair of the registration that followed.
NullIsRecoverableWitness ==
  /\ Did("Processor")
  /\ lastCall.ret # NULL
  /\ lastCall.calls # <<>>
  /\ lastCall.type \in refused[lastCall.engine]
  /\ lastCall.calls[1].fns = RegisteredPair(lastCall.type)

\* C13 as stated: when A's advance reads B's state and both are live in the
\* engine, A observes in every AdvanceFrame B's state of the previous tick,
\* whichever of the two types is A.
EveryReaderSeesPreviousTick ==
  [][\A e \in Engines :
       Called("AdvanceFrame", e) =>
         \A a, b \in Entries(e) :
           a # b =>
             \A i \in Invocations(lastCall'.calls, "advance", a[2]) :
               lastCall'.calls[i].saw[b[2]] = heap[b[2]].advances]_vars

\* C13 as amended: A observes B's state of the previous tick when A's type
\* comes before B's in the map's order, and B's state of this tick, already
\* advanced, when B's type comes first.
EarlierReaderSeesPreviousTick ==
  [][\A e \in Engines :
       Called("AdvanceFrame", e) =>
         \A a, b \in Entries(e) :
           a # b =>
             /\ Invocations(lastCall'.calls, "advance", a[2]) # {}
             /\ \A i \in Invocations(lastCall'.calls, "advance", a[2]) :
                  /\ a[1] < b[1] =>
                       lastCall'.calls[i].saw[b[2]] = heap[b[2]].advances
                  /\ b[1] < a[1] =>
                       lastCall'.calls[i].saw[b[2]] = heap[b[2]].advances + 1]_vars

\* AdvanceFrame advanced two processors: the first saw the second as the
\* previous tick left it, the second saw the first already advanced.
EarlierReaderSeesPreviousTickWitness ==
  /\ Did("AdvanceFrame")
  /\ Len(lastCall.calls) = 2
  /\ lastCall.calls[1].saw[lastCall.calls[2].h]
       = heap[lastCall.calls[2].h].advances - 1
  /\ lastCall.calls[2].saw[lastCall.calls[1].h]
       = heap[lastCall.calls[1].h].advances

\* C14: no handle is destroyed twice, and every handle AdvanceFrame passes to
\* advance or Processor returns has been created and not yet destroyed.
NoUseAfterDestroy ==
  /\ \A h \in DOMAIN heap : Len(heap[h].destroyedBy) <= 1
  /\ Did("Reset") =>
       \A i \in 1..Len(lastCall.calls) :
         /\ lastCall.calls[i].h \in DOMAIN heap
         /\ Len(heap[lastCall.calls[i].h].destroyedBy) = 1
  /\ Did("AdvanceFrame") =>
       \A i \in 1..Len(lastCall.calls) :
         /\ lastCall.calls[i].h \in DOMAIN heap
         /\ heap[lastCall.calls[i].h].destroyedBy = <<>>
  /\ (Did("Processor") /\ lastCall.ret # NULL) =>
       /\ lastCall.ret \in DOMAIN heap
       /\ heap[lastCall.ret].destroyedBy = <<>>

\* After a Reset destroyed a handle, the engine created a new one for the
\* same type and advanced it.
NoUseAfterDestroyWitness ==
  /\ Did("AdvanceFrame")
  /\ lastCall.calls # <<>>
  /\ \E h \in DOMAIN heap :
       /\ heap[h].destroyedBy # <<>>
       /\ heap[h].type = heap[lastCall.calls[1].h].type
       /\ heap[h].owner = lastCall.engine

\* C16: AdvanceFrame only dispatches: it leaves the instances maps and the
\* registry unchanged and invokes neither create nor destroy; on an engine
\* with no instance it invokes nothing.
AdvanceFrameOnlyDispatches ==
  [][\A e \in Engines :
       Called("AdvanceFrame", e) =>
         /\ processors_' = processors_
         /\ function_map_' = function_map_
         /\ DOMAIN heap' = DOMAIN heap
         /\ \A h \in DOMAIN heap : heap'[h].destroyedBy = heap[h].destroyedBy
         /\ \A i \in 1..Len(lastCall'.calls) : lastCall'.calls[i].f = "advance"
         /\ Entries(e) = {} => (lastCall'.calls = <<>> /\ heap' = heap)]_vars

\* AdvanceFrame ran on an engine with an instance, and the instance is still
\* in the map, advanced.
AdvanceFrameOnlyDispatchesWitness ==
  /\ Did("AdvanceFrame")
  /\ lastCall.calls # <<>>
  /\ lastCall.calls[1].h \in Values(Entries(lastCall.engine))
  /\ heap[lastCall.calls[1].h].advances > 0

\* C17: every type that is a key of an engine's instances map is a key of the
\* registry, so the lookup Reset makes for each entry finds a factory pair.
EntriesAreRegistered ==
  /\ \A e \in Engines : \A p \in Entries(e) : Registered(p[1])
  /\ Did("Reset") =>
       \A i \in 1..Len(lastCall.calls) :
         /\ Registered(heap[lastCall.calls[i].h].type)
         /\ lastCall.calls[i].fns = RegisteredPair(heap[lastCall.calls[i].h].type)

\* A Reset looked up the factory pairs of two entries.
EntriesAreRegisteredWitness ==
  /\ Did("Reset")
  /\ Len(lastCall.calls) = 2
  /\ heap[lastCall.calls[1].h].type # heap[lastCall.calls[2].h].type

\* C15: engines sharing the registry own separate instances: Processor(T) on
\* two engines returns distinct handles, no handle is in two engines' maps,
\* and Processor, AdvanceFrame or Reset on one engine leaves another engine's
\* map unchanged and neither advances nor destroys any of its handles.
EnginesAreIndependent ==
  /\ [](\A e, d \in Engines :
          e # d =>
            /\ Values(Entries(e)) \cap Values(Entries(d)) = {}
            /\ \A t \in Types :
                 (given[e][t] # NULL /\ given[d][t] # NULL) =>
                   given[e][t] # given[d][t])
  /\ [][\A e \in Engines :
          (\/ Called("Processor", e) \/ Called("AdvanceFrame", e)
           \/ Called("Reset", e)) =>
            \A d \in Engines \ {e} :
              /\ processors_'[d] = processors_[d]
              /\ \A h \in Values(Entries(d)) \cap DOMAIN heap :
                   /\ heap'[h] = heap[h]
                   /\ \A i \in 1..Len(lastCall'.calls) :
                        lastCall'.calls[i].h # h]_vars

\* Two engines held a processor of the same type each; one engine advanced
\* its own and was then Reset, and the other still holds its own, neither
\* advanced nor destroyed.
EnginesAreIndependentWitness ==
  /\ Did("Reset")
  /\ lastCall.calls # <<>>
  /\ heap[lastCall.calls[1].h].advances > 0
  /\ \E d \in Engines \ {lastCall.engine} : \E p \in Entries(d) :
       /\ p[1] = heap[lastCall.calls[1].h].type
       /\ p[2] # lastCall.calls[1].h
       /\ heap[p[2]].destroyedBy = <<>>
       /\ heap[p[2]].advances = 0

\* C18: the handles created and not yet destroyed are exactly the handles in
\* the engines' instances maps, so that right after Reset() every handle the
\* engine ever created has been destroyed.
NoHandleLeaked ==
  /\ {h \in DOMAIN heap : heap[h].destroyedBy = <<>>}
       = UNION {Values(Entries(e)) : e \in Engines}
  /\ Did("Reset") =>
       \A h \in DOMAIN heap :
         heap[h].owner = lastCall.engine => heap[h].destroyedBy # <<>>

\* A Reset destroyed the handle an engine had created, while another engine
\* still holds a live handle.
NoHandleLeakedWitness ==
  /\ Did("Reset")
  /\ lastCall.calls # <<>>
  /\ \E h \in DOMAIN heap :
       /\ heap[h].owner = lastCall.engine
       /\ heap[h].destroyedBy # <<>>
  /\ \E d \in Engines \ {lastCall.engine} : Entries(d) # {}

====
